---- MODULE Spec2Model ----
(***************************************************************************)
(* DocFides parsing service: the /parse request pipeline.                  *)
(*                                                                         *)
(*   main.parse -> detector.detect_document_type -> parser.parse_document  *)
(*   -> one of _parse_image / _parse_pdf_native / _parse_pdf_scanned /     *)
(*      _parse_docx / _parse_xlsx -> ParseResponse                         *)
(*                                                                         *)
(* Text is a sequence of one-character strings.  Characters outside ASCII  *)
(* are written as named tokens ("a_breve" is one character).  A document's *)
(* bytes are a sequence of segments: a literal PDF marker, a decoy that is *)
(* no marker, or a run of n filler bytes that contain no marker character. *)
(* The external engines (OCR, Tika, Camelot, img2table, PyMuPDF,           *)
(* pdf2image, openpyxl) are nondeterministic: each call draws one of the   *)
(* results the wrapper around the engine can return.  Confidences are      *)
(* integers; a mean is kept as an exact fraction [num, den].  Block ids    *)
(* (fresh uuids), the constant unit bounding box, the MIME type and the    *)
(* elapsed time are left out: no operation reads them.                     *)
(***************************************************************************)
EXTENDS Integers, Sequences, FiniteSets, TLC

VARIABLES pc, filename, content, doc_type, http, response,
          blocks, tables, raw_text, language, page_count,
          pages, page_num, all_text, attempt, units, calls, raster

vars == <<pc, filename, content, doc_type, http, response,
          blocks, tables, raw_text, language, page_count,
          pages, page_num, all_text, attempt, units, calls, raster>>

(***************************************************************************)
(* Bounds of the model.                                                    *)
(***************************************************************************)
MaxPages == 2
MaxTables == 2
MaxSheets == 2
MaxSegs == 4
MaxFallbackPages == 1

(***************************************************************************)
(* Constants of the program.                                               *)
(***************************************************************************)
OCR_THRESHOLD == 70
SCAN_LIMIT == 50000
MARKER_MIN == 2
MAX_UPLOAD == 26214400
MIN_LANG_LEN == 20
WEAK_SCORE == 3
TIKA_PDF_CONFIDENCE == 95
TIKA_DOCX_CONFIDENCE == 98
DOCX_TABLE_CONFIDENCE == 97
XLSX_CONFIDENCE == 98
XLSX_TEXT_CONFIDENCE == 98
IMG2TABLE_CONFIDENCE == 85

None == "None"

(***************************************************************************)
(* Strings.                                                                *)
(***************************************************************************)
RECURSIVE SumSeq(_)
SumSeq(s) == IF s = <<>> THEN 0 ELSE Head(s) + SumSeq(Tail(s))

UpperAlpha == <<"A", "B", "C", "D", "E", "F", "G", "H", "I", "J", "K", "L", "M",
                "N", "O", "P", "Q", "R", "S", "T", "U", "V", "W", "X", "Y", "Z",
                "A_BREVE", "A_CIRC", "I_CIRC", "S_COMMA", "T_COMMA",
                "E_ACUTE", "U_UML", "O_UML">>
LowerAlpha == <<"a", "b", "c", "d", "e", "f", "g", "h", "i", "j", "k", "l", "m",
                "n", "o", "p", "q", "r", "s", "t", "u", "v", "w", "x", "y", "z",
                "a_breve", "a_circ", "i_circ", "s_comma", "t_comma",
                "e_acute", "u_uml", "o_uml">>

\* str.lower(), one character
LowerChar(c) ==
    IF \E i \in DOMAIN UpperAlpha : UpperAlpha[i] = c
    THEN LowerAlpha[CHOOSE i \in DOMAIN UpperAlpha : UpperAlpha[i] = c]
    ELSE c

\* str.lower()
Lower(s) == [i \in DOMAIN s |-> LowerChar(s[i])]

IsSpace(c) == c \in {" ", "\n", "\t"}

RECURSIVE LStrip(_)
LStrip(s) == IF s # <<>> /\ IsSpace(Head(s)) THEN LStrip(Tail(s)) ELSE s

RECURSIVE RStrip(_)
RStrip(s) ==
    IF s # <<>> /\ IsSpace(s[Len(s)]) THEN RStrip(SubSeq(s, 1, Len(s) - 1)) ELSE s

\* str.strip()
Strip(s) == RStrip(LStrip(s))

\* sub in s
Contains(s, sub) ==
    \E i \in 1..(Len(s) - Len(sub) + 1) : SubSeq(s, i, i + Len(sub) - 1) = sub

\* sep.join(parts)
RECURSIVE Join(_, _)
Join(sep, parts) ==
    IF parts = <<>> THEN <<>>
    ELSE IF Len(parts) = 1 THEN parts[1]
    ELSE parts[1] \o sep \o Join(sep, Tail(parts))

\* s: the index of the last "." of s, 0 when there is none
LastDot(s) ==
    IF \E i \in DOMAIN s : s[i] = "."
    THEN CHOOSE i \in DOMAIN s : s[i] = "." /\ \A j \in (i + 1)..Len(s) : s[j] # "."
    ELSE 0

(***************************************************************************)
(* detector.py                                                             *)
(***************************************************************************)
IMAGE_EXTENSIONS == {<<".", "p", "n", "g">>, <<".", "j", "p", "g">>,
                     <<".", "j", "p", "e", "g">>, <<".", "t", "i", "f", "f">>,
                     <<".", "t", "i", "f">>}
PDF_EXTENSIONS == {<<".", "p", "d", "f">>}
DOCX_EXTENSIONS == {<<".", "d", "o", "c", "x">>}
XLSX_EXTENSIONS == {<<".", "x", "l", "s", "x">>, <<".", "x", "l", "s">>}

\* A segment of a document's bytes: [m |-> token, n |-> byte length].
text_markers == <<"/Type /Page", "BT", "ET", "/Font">>

MarkerLen(m) ==
    CASE m = "/Type /Page" -> 11
      [] m = "/Font" -> 5
      [] OTHER -> 2

Marker(m) == [m |-> m, n |-> MarkerLen(m)]
Fill(n) == [m |-> "fill", n |-> n]

\* len(content)
ContentLen(c) == SumSeq([i \in DOMAIN c |-> c[i].n])

\* the offset of the first byte after segment i
SegEnd(c, i) == SumSeq([j \in 1..i |-> c[j].n])

\* marker in content[:50000]
MarkerInHead(marker, c) ==
    \E i \in DOMAIN c : c[i].m = marker /\ SegEnd(c, i) <= SCAN_LIMIT

\* _pdf_has_selectable_text asking for more than two markers
NativeThresholdOff(c) ==
    Cardinality({i \in DOMAIN text_markers : MarkerInHead(text_markers[i], c)}) > MARKER_MIN

\* _pdf_has_selectable_text scanning the whole document
NoScanLimit(c) ==
    Cardinality({i \in DOMAIN text_markers :
                    \E k \in DOMAIN c : c[k].m = text_markers[i]}) >= MARKER_MIN

_pdf_has_selectable_text(c) ==
    LET marker_count ==
            Cardinality({i \in DOMAIN text_markers : MarkerInHead(text_markers[i], c)})
    IN  marker_count >= MARKER_MIN

DocumentType(category, ext, has_text) ==
    [category |-> category, extension |-> ext, has_text |-> has_text]

Extension(name) ==
    IF LastDot(name) > 0
    THEN <<".">> \o Lower(SubSeq(name, LastDot(name) + 1, Len(name)))
    ELSE <<>>

detect_document_type(c, name) ==
    LET ext == Extension(name)
    IN  IF ext \in IMAGE_EXTENSIONS THEN DocumentType("image", ext, FALSE)
        ELSE IF ext \in PDF_EXTENSIONS
        THEN LET has_text == _pdf_has_selectable_text(c)
             IN  DocumentType(IF has_text THEN "pdf_native" ELSE "pdf_scanned",
                              ext, has_text)
        ELSE IF ext \in DOCX_EXTENSIONS THEN DocumentType("docx", ext, TRUE)
        ELSE IF ext \in XLSX_EXTENSIONS THEN DocumentType("xlsx", ext, TRUE)
        ELSE DocumentType("unknown", ext, FALSE)

(***************************************************************************)
(* language.py                                                             *)
(***************************************************************************)
ro_chars == {"a_breve", "a_circ", "i_circ", "s_comma", "t_comma"}
fr_chars == {"a_grave", "a_circ", "ae", "c_cedil", "e_acute", "e_grave", "e_circ",
             "e_uml", "i_circ", "i_uml", "o_circ", "u_grave", "u_circ", "u_uml",
             "y_uml", "oe"}
de_chars == {"a_uml", "o_uml", "u_uml", "eszett"}

ro_keywords == <<<<"c", "o", "n", "f", "o", "r", "m">>,
                <<"s", "o", "c", "i", "e", "t", "a", "t", "e", "a">>,
                <<"c", "o", "n", "t", "r", "a", "c", "t">>,
                <<"b", "e", "n", "e", "f", "i", "c", "i", "a", "r">>,
                <<"p", "r", "o", "i", "e", "c", "t">>,
                <<"c", "o", "n", "f", "o", "r", "m">>,
                <<"a", "n", "u", "l">>,
                <<"e", "x", "e", "c", "u", "t", "a", "n", "t">>,
                <<"c", "e", "r", "e", "r", "e">>,
                <<"e", "m", "i", "s">>,
                <<"s", "e", "m", "n", "a", "t">>,
                <<"p", "e", "n", "t", "r", "u">>,
                <<"a", "c", "e", "s", "t">>>>

\* sum(1 for c in s if c in chars)
CountIn(s, chars) == Cardinality({i \in DOMAIN s : s[i] \in chars})

\* the scoring order of the dict literal
score_order == <<"ron", "fra", "deu", "eng">>

Scores(t) ==
    LET text_lower == Lower(t)
        ro_keyword_count ==
            Cardinality({i \in DOMAIN ro_keywords : Contains(text_lower, ro_keywords[i])})
    IN  [k \in {"ron", "fra", "deu", "eng"} |->
            CASE k = "ron" -> CountIn(text_lower, ro_chars) * 5 + ro_keyword_count * 3
              [] k = "fra" -> CountIn(text_lower, fr_chars) * 5
              [] k = "deu" -> CountIn(text_lower, de_chars) * 5
              [] OTHER -> 0]

\* max(scores, key=...): the first key, in dict order, of the highest score
BestLang(scores) ==
    LET i == CHOOSE i \in DOMAIN score_order :
                /\ \A j \in DOMAIN score_order : scores[score_order[j]] <= scores[score_order[i]]
                /\ \A j \in 1..(i - 1) : scores[score_order[j]] < scores[score_order[i]]
    IN  score_order[i]

\* detect_language measuring the text before it is stripped
DetectLanguageNoStrip(t) ==
    IF t = <<>> \/ Len(t) < MIN_LANG_LEN THEN None
    ELSE LET scores == Scores(t)
             best_lang == BestLang(scores)
         IN  IF scores[best_lang] < WEAK_SCORE THEN "ron" ELSE best_lang

\* detect_language falling back to the default tag on a weak signal
DetectLanguageDefaultEng(t) ==
    IF t = <<>> \/ Len(Strip(t)) < MIN_LANG_LEN THEN None
    ELSE LET scores == Scores(t)
             best_lang == BestLang(scores)
         IN  IF scores[best_lang] < WEAK_SCORE THEN "eng" ELSE best_lang

detect_language(t) ==
    IF t = <<>> \/ Len(Strip(t)) < MIN_LANG_LEN THEN None
    ELSE LET scores == Scores(t)
             best_lang == BestLang(scores)
         IN  IF scores[best_lang] < WEAK_SCORE THEN "ron" ELSE best_lang

\* a or b, for Optional[str] values
Or(a, b) == IF a = None \/ a = "" THEN b ELSE a

(***************************************************************************)
(* Results the engine wrappers can return.                                 *)
(***************************************************************************)
Rep(c, n) == [i \in 1..n |-> c]

RoText == <<"p", "e", "n", "t", "r", "u", " ", "a", "c", "e", "s", "t", " ", "c", "o", "n", "t", "r", "a", "c", "t">>
FrText == <<"e_acute">> \o Rep("x", 20)

\* what the engines read off an image, and how sure they are; a failed
\* engine reports confidence 0
TesseractTexts == {<<" ">>, RoText \o <<"\n">>}
EasyOcrTexts == {<<" ">>, FrText}
Confidences == {0, 40, 70}

LOW_CONFIDENCE_WARNING == 70

\* ocr.py run_tesseract: the success and the except branch
TesseractOk(t, c) ==
    [text |-> Strip(t), confidence |-> c, language |-> "ron", source |-> "tesseract",
     warnings |-> IF c < LOW_CONFIDENCE_WARNING
                  THEN <<"Low OCR confidence">> ELSE <<>>]
TesseractFailed ==
    [text |-> <<>>, confidence |-> 0, language |-> None, source |-> "tesseract",
     warnings |-> <<"Tesseract failed">>]
TesseractResults ==
    {TesseractFailed} \cup {TesseractOk(t, c) : t \in TesseractTexts, c \in Confidences}

\* ocr.py run_easyocr_fallback: the success and the except branch
EasyOcrOk(t, c) ==
    [text |-> t, confidence |-> c, language |-> None, source |-> "easyocr",
     warnings |-> <<>>]
EasyOcrFailed ==
    [text |-> <<>>, confidence |-> 0, language |-> None, source |-> "easyocr",
     warnings |-> <<"EasyOCR failed">>]
EasyOcrResults ==
    {EasyOcrFailed} \cup {EasyOcrOk(t, c) : t \in EasyOcrTexts, c \in Confidences}

NoResult ==
    [text |-> <<>>, confidence |-> 0, language |-> None, source |-> "none",
     warnings |-> <<>>]

\* models.py TableData; the i-th table an extractor returns is tagged i
TableData(i, c) == [headers |-> <<i>>, confidence |-> c]

\* table_extractor.py extract_tables_from_image: n tables, [] on any failure
ImageTables(n) == [i \in 1..n |-> TableData(i, IMG2TABLE_CONFIDENCE)]

\* models.py ExtractionBlock
ExtractionBlock(type, c, source, confidence, page, warnings) ==
    [type |-> type, content |-> c, source |-> source, confidence |-> confidence,
     page |-> page, warnings |-> warnings]

TableBlocks(ts, source, page) ==
    [i \in DOMAIN ts |->
        ExtractionBlock("table", ts[i], source, ts[i].confidence, page, <<>>)]

\* dict.get(key, default) on a result [keys |-> the keys present, ...]
Get(r, key, default) == IF key \in r.keys THEN r[key] ELSE default

\* tika_client.py extract_text_with_tika: the success and the except branch
DocTexts == {<<>>, RoText, FrText}
TikaOk(t, n) ==
    [keys |-> {"text", "metadata", "page_count"}, text |-> Strip(t), page_count |-> n,
     error |-> ""]
TikaFailed ==
    [keys |-> {"text", "metadata", "page_count", "error"}, text |-> <<>>,
     page_count |-> 1, error |-> "tika error"]
TikaResults == {TikaFailed} \cup {TikaOk(t, n) : t \in DocTexts, n \in 1..MaxPages}

\* pdf_utils.py extract_tables_from_native_pdf: [] on any failure
CamelotAccuracies == {50, 90}
CamelotTable == [confidence : CamelotAccuracies, page : 1..MaxPages]
CamelotResults == UNION {[1..n -> CamelotTable] : n \in 0..MaxTables}

\* parser.py _extract_docx_tables: n tables, [] on any failure
DocxTables(n) == [i \in 1..n |-> TableData(i, DOCX_TABLE_CONFIDENCE)]

\* xlsx_parser.py parse_xlsx: the success and the except branch
SheetText(n) ==
    Join(<<"\n">>, [i \in 1..n |-> <<"-", "-", "-", "\n", "r">>])
XlsxOk(n) ==
    [keys |-> {"tables", "raw_text", "page_count"},
     tables |-> [i \in 1..n |-> TableData(i, XLSX_CONFIDENCE)],
     raw_text |-> SheetText(n), page_count |-> n, error |-> ""]
XlsxError(e) ==
    [keys |-> {"tables", "raw_text", "error"}, tables |-> <<>>,
     raw_text |-> <<"[", "e", "r", "r", "]">>, page_count |-> 0, error |-> e]
XlsxErrors == {"File is not a zip file", ""}
XlsxResults == {XlsxOk(n) : n \in 0..MaxSheets} \cup {XlsxError(e) : e \in XlsxErrors}

(***************************************************************************)
(* pdf_utils.py: the rasterizer                                            *)
(***************************************************************************)
\* What the two backends do on one call: PyMuPDF renders n pages, is not
\* installed (ImportError), or raises on the document; pdf2image renders m
\* pages or raises.
RasterOutcomes ==
    [fitz : {"ok", "ImportError", "raises"}, n : 0..MaxPages,
     pdf2image : {"ok", "raises"}, m : 0..MaxFallbackPages]

_extract_with_pdf2image(o) ==
    IF o.pdf2image = "ok" THEN Rep("png", o.m) ELSE <<"pdf">>

\* [raised |-> an exception left the function, pages |-> the list returned]
extract_pdf_pages(o) ==
    CASE o.fitz = "ok" -> [raised |-> FALSE, pages |-> Rep("png", o.n)]
      [] o.fitz = "ImportError" -> [raised |-> FALSE, pages |-> _extract_with_pdf2image(o)]
      [] OTHER -> [raised |-> TRUE, pages |-> <<>>]

(***************************************************************************)
(* parser.py: the strategies, as functions of what the engines returned    *)
(***************************************************************************)
\* ImageFallback calling the fallback at confidence 70 too
ImageFallbackAt70(prim, easy) ==
    IF prim.confidence <= OCR_THRESHOLD
    THEN IF easy.confidence > prim.confidence
         THEN [ocr_result |-> easy, raw_text |-> easy.text, easy_calls |-> 1]
         ELSE [ocr_result |-> prim, raw_text |-> prim.text, easy_calls |-> 1]
    ELSE [ocr_result |-> prim, raw_text |-> prim.text, easy_calls |-> 0]

\* _parse_image, lines 66-75: the OCR result in effect, its text, and the
\* number of calls of run_easyocr_fallback
ImageFallback(prim, easy) ==
    IF prim.confidence < OCR_THRESHOLD
    THEN IF easy.confidence > prim.confidence
         THEN [ocr_result |-> easy, raw_text |-> easy.text, easy_calls |-> 1]
         ELSE [ocr_result |-> prim, raw_text |-> prim.text, easy_calls |-> 1]
    ELSE [ocr_result |-> prim, raw_text |-> prim.text, easy_calls |-> 0]

\* _parse_image returning tables_list, the one-table list of its loop
ParseImageLastTableOnly(prim, easy, image_tables) ==
    LET fb == ImageFallback(prim, easy)
        text_block == ExtractionBlock("text", fb.raw_text, fb.ocr_result.source,
                                      fb.ocr_result.confidence, 1, fb.ocr_result.warnings)
    IN  [blocks |-> <<text_block>> \o TableBlocks(image_tables, "img2table", 1),
         tables |-> IF image_tables = <<>> THEN <<>>
                    ELSE <<image_tables[Len(image_tables)]>>,
         raw_text |-> fb.raw_text,
         language |-> Or(detect_language(prim.text), prim.language),
         page_count |-> 1, fb |-> fb]

_parse_image(prim, easy, image_tables) ==
    LET fb == ImageFallback(prim, easy)
        language0 == Or(detect_language(prim.text), prim.language)
        text_block == ExtractionBlock("text", fb.raw_text, fb.ocr_result.source,
                                      fb.ocr_result.confidence, 1, fb.ocr_result.warnings)
    IN  [blocks |-> <<text_block>> \o TableBlocks(image_tables, "img2table", 1),
         tables |-> image_tables, raw_text |-> fb.raw_text, language |-> language0,
         page_count |-> 1, fb |-> fb]

_parse_pdf_native(tika_result, camelot_tables) ==
    LET text == tika_result.text
        tds == [i \in DOMAIN camelot_tables |->
                    TableData(i, camelot_tables[i].confidence)]
    IN  [blocks |-> <<ExtractionBlock("text", text, "tika", TIKA_PDF_CONFIDENCE, 1, <<>>)>>
                    \o [i \in DOMAIN tds |->
                            ExtractionBlock("table", tds[i], "camelot", tds[i].confidence,
                                            camelot_tables[i].page, <<>>)],
         tables |-> tds, raw_text |-> text, language |-> detect_language(text),
         page_count |-> Get(tika_result, "page_count", 1)]

_parse_docx(tika_result, docx_tables) ==
    LET text == tika_result.text
    IN  [blocks |-> <<ExtractionBlock("text", text, "tika", TIKA_DOCX_CONFIDENCE, 1, <<>>)>>
                    \o TableBlocks(docx_tables, "tika", 1),
         tables |-> docx_tables, raw_text |-> text, language |-> detect_language(text),
         page_count |-> 1]

_parse_xlsx(result) ==
    LET ts == Get(result, "tables", <<>>)
        text == Get(result, "raw_text", <<>>)
        error == Get(result, "error", "")
    IN  [blocks |->
            IF error # ""
            THEN <<ExtractionBlock("text", text, "openpyxl", 0, 1,
                                   <<"Excel parse error">>)>>
            ELSE (IF text # <<>>
                  THEN <<ExtractionBlock("text", text, "openpyxl", XLSX_TEXT_CONFIDENCE, 1,
                                         <<>>)>>
                  ELSE <<>>)
                 \o [i \in DOMAIN ts |->
                        ExtractionBlock("table", ts[i], "openpyxl", ts[i].confidence, i, <<>>)],
         tables |-> ts, raw_text |-> text, language |-> None,
         page_count |-> Get(result, "page_count", 1)]

\* PageFallback preferring the fallback on equal confidence
PageFallbackOnTie(prim, easy) ==
    IF prim.confidence < OCR_THRESHOLD
    THEN IF easy.confidence >= prim.confidence
         THEN [ocr_result |-> easy, page_text |-> easy.text, easy_calls |-> 1]
         ELSE [ocr_result |-> prim, page_text |-> prim.text, easy_calls |-> 1]
    ELSE [ocr_result |-> prim, page_text |-> prim.text, easy_calls |-> 0]

\* _parse_pdf_scanned, lines 172-180: one page's OCR result in effect
PageFallback(prim, easy) ==
    IF prim.confidence < OCR_THRESHOLD
    THEN IF easy.confidence > prim.confidence
         THEN [ocr_result |-> easy, page_text |-> easy.text, easy_calls |-> 1]
         ELSE [ocr_result |-> prim, page_text |-> prim.text, easy_calls |-> 1]
    ELSE [ocr_result |-> prim, page_text |-> prim.text, easy_calls |-> 0]

\* PageBlocks running the table extraction before the text block is appended
PageBlocksTablesFirst(n, fb, page_tables) ==
    TableBlocks(page_tables, "img2table", n)
    \o (IF Strip(fb.page_text) # <<>>
        THEN <<ExtractionBlock("text", fb.page_text, fb.ocr_result.source,
                               fb.ocr_result.confidence, n, fb.ocr_result.warnings)>>
        ELSE <<>>)

\* _parse_pdf_scanned, lines 182-211: the blocks one page appends
PageBlocks(n, fb, page_tables) ==
    (IF Strip(fb.page_text) # <<>>
     THEN <<ExtractionBlock("text", fb.page_text, fb.ocr_result.source,
                            fb.ocr_result.confidence, n, fb.ocr_result.warnings)>>
     ELSE <<>>)
    \o TableBlocks(page_tables, "img2table", n)

Placeholder ==
    ExtractionBlock("text", <<>>, "tesseract", 0, 1,
                    <<"No text could be extracted from this PDF">>)

\* WithPlaceholder without the warning block
NoPlaceholder(bs) == bs

\* _parse_pdf_scanned, lines 216-229
WithPlaceholder(bs) == IF bs = <<>> THEN <<Placeholder>> ELSE bs

\* Overall counting only the confidence of text blocks
OverallOfText(bs) ==
    LET confidences == [i \in DOMAIN bs |-> IF bs[i].type = "text" THEN bs[i].confidence ELSE 0]
    IN  IF confidences # <<>>
        THEN [num |-> SumSeq(confidences), den |-> Len(confidences)]
        ELSE [num |-> 0, den |-> 1]

\* parse_document, lines 46-47: sum(confidences) / len(confidences), else 0
Overall(bs) ==
    LET confidences == [i \in DOMAIN bs |-> bs[i].confidence]
    IN  IF confidences # <<>>
        THEN [num |-> SumSeq(confidences), den |-> Len(confidences)]
        ELSE [num |-> 0, den |-> 1]

\* Strategy without the final else: an unknown category goes on to the
\* response with nothing extracted
StrategyFallsThrough(category) ==
    IF category \in {"image", "pdf_native", "pdf_scanned", "docx", "xlsx"}
    THEN category ELSE "assemble"

\* parse_document, lines 26-43: the strategy of a category
Strategy(category) ==
    IF category \in {"image", "pdf_native", "pdf_scanned", "docx", "xlsx"}
    THEN category ELSE "ValueError"

(***************************************************************************)
(* The request: state and steps                                            *)
(***************************************************************************)
Filenames ==
    {<<>>,
     <<"s", "c", "a", "n", ".", "p", "n", "g">>,
     <<"p", "h", "o", "t", "o", ".", "J", "P", "G">>,
     <<"a", ".", "j", "p", "e", "g">>,
     <<"a", ".", "t", "i", "f", "f">>,
     <<"a", ".", "t", "i", "f">>,
     <<"r", "e", "p", "o", "r", "t", ".", "p", "d", "f">>,
     <<"r", "e", "p", "o", "r", "t", ".", "P", "D", "F">>,
     <<"v", "1", ".", "2", ".", "P", "d", "f">>,
     <<"l", "e", "t", "t", "e", "r", ".", "d", "o", "c", "x">>,
     <<"b", "o", "o", "k", ".", "x", "l", "s", "x">>,
     <<"b", "o", "o", "k", ".", "x", "l", "s">>,
     <<"n", "o", "t", "e", "s", ".", "t", "x", "t">>,
     <<"R", "E", "A", "D", "M", "E">>,
     <<"p", "d", "f">>,
     <<"a", "r", "c", "h", "i", "v", "e", ".", "t", "a", "r", ".", "g", "z">>,
     <<"r", "e", "p", "o", "r", "t", ".", "p", "d", "f", ".">>}

Segments ==
    {Marker(text_markers[i]) : i \in DOMAIN text_markers}
    \cup {Marker("bt"), Fill(49989)}

\* every document of at most MaxSegs segments
Contents == UNION {[1..n -> Segments] : n \in 0..MaxSegs}

\* the requests sent to /parse: one file name of each kind
UploadNames ==
    Filenames \ {<<"r", "e", "p", "o", "r", "t", ".", "p", "d", "f">>,
                 <<"v", "1", ".", "2", ".", "P", "d", "f">>,
                 <<"a", ".", "j", "p", "e", "g">>, <<"a", ".", "t", "i", "f", "f">>,
                 <<"a", ".", "t", "i", "f">>}

Uploads ==
    {<<>>, <<Marker("/Type /Page"), Marker("/Font")>>, <<Fill(MAX_UPLOAD + 1)>>}

NoDocType == DocumentType("none", <<>>, FALSE)
NoResponse == [returned |-> FALSE]
Pending == [status |-> 0, detail |-> ""]
\* what the rasterizer's backends did: pdf2image is tried only after PyMuPDF
\* failed to import
NoRaster == [fitz |-> "not called", pdf2image |-> "not called"]
Rasterized(o) ==
    [fitz |-> o.fitz,
     pdf2image |-> IF o.fitz = "ImportError" THEN o.pdf2image ELSE "not called"]

NoAttempt ==
    [unit |-> "none", page |-> 0, primary |-> NoResult, secondary |-> NoResult,
     easy_calls |-> 0, ocr_result |-> NoResult, text |-> <<>>]

Blank ==
    /\ doc_type = NoDocType
    /\ http = Pending
    /\ response = NoResponse
    /\ blocks = <<>>
    /\ tables = <<>>
    /\ raw_text = <<>>
    /\ language = None
    /\ page_count = 1
    /\ pages = <<>>
    /\ page_num = 0
    /\ all_text = <<>>
    /\ attempt = NoAttempt
    /\ units = <<>>
    /\ calls = {}
    /\ raster = NoRaster

Init ==
    /\ pc = "idle"
    /\ filename = <<>>
    /\ content = <<>>
    /\ Blank

unchanged_work ==
    UNCHANGED <<blocks, tables, raw_text, language, page_count, pages, page_num,
                all_text, attempt, units, calls, raster>>

\* main.py parse, lines 19-33, with parse_document's dispatch, lines 16-43
Parse ==
    /\ pc = "idle"
    /\ \E name \in UploadNames, c \in Uploads :
        /\ filename' = name
        /\ content' = c
        /\ IF name = <<>>
           THEN /\ http' = [status |-> 400, detail |-> "No filename provided"]
                /\ pc' = "done"
                /\ doc_type' = doc_type
           ELSE IF ContentLen(c) > MAX_UPLOAD
           THEN /\ http' = [status |-> 400, detail |-> "File too large (max 25MB)"]
                /\ pc' = "done"
                /\ doc_type' = doc_type
           ELSE /\ doc_type' = detect_document_type(c, name)
                /\ IF Strategy(doc_type'.category) = "ValueError"
                   THEN /\ http' = [status |-> 500,
                                    detail |-> "Parsing failed: Unsupported document type"]
                        /\ pc' = "done"
                   ELSE /\ http' = http
                        /\ pc' = Strategy(doc_type'.category)
    /\ response' = response
    /\ unchanged_work

Unit(kind, page, failed, text, ntables) ==
    [kind |-> kind, page |-> page, failed |-> failed, text |-> text, ntables |-> ntables]

Attempt(unit, page, prim, easy, fb, text) ==
    [unit |-> unit, page |-> page, primary |-> prim,
     secondary |-> IF fb.easy_calls > 0 THEN easy ELSE NoResult,
     easy_calls |-> fb.easy_calls, ocr_result |-> fb.ocr_result, text |-> text]

Returned(r) ==
    /\ blocks' = r.blocks
    /\ tables' = r.tables
    /\ raw_text' = r.raw_text
    /\ language' = r.language
    /\ page_count' = r.page_count
    /\ pc' = "assemble"
    /\ UNCHANGED <<filename, content, doc_type, http, response, pages, page_num, all_text,
                   raster>>

\* parse_document, lines 26-28: _parse_image
ParseImage ==
    /\ pc = "image"
    /\ \E prim \in TesseractResults, easy \in EasyOcrResults, n \in 0..MaxTables :
        LET r == _parse_image(prim, easy, ImageTables(n))
        IN  /\ Returned(r)
            /\ attempt' = Attempt("image", 1, prim, easy, r.fb, r.fb.raw_text)
            /\ units' = Append(units, Unit("image", 1,
                                           prim = TesseractFailed /\ easy = EasyOcrFailed,
                                           r.fb.raw_text, n))
            /\ calls' = calls \cup {"preprocess_image", "run_tesseract",
                                    "extract_tables_from_image"}
                              \cup (IF r.fb.easy_calls > 0 THEN {"run_easyocr_fallback"} ELSE {})

\* parse_document, lines 30-31: _parse_pdf_native
ParsePdfNative ==
    /\ pc = "pdf_native"
    /\ \E tika_result \in TikaResults, camelot_tables \in CamelotResults :
        /\ Returned(_parse_pdf_native(tika_result, camelot_tables))
        /\ units' = Append(units, Unit("tika", 1, "error" \in tika_result.keys,
                                       tika_result.text, Len(camelot_tables)))
        /\ calls' = calls \cup {"extract_text_with_tika", "extract_tables_from_native_pdf"}
        /\ attempt' = attempt

\* parse_document, lines 36-37: _parse_docx
ParseDocx ==
    /\ pc = "docx"
    /\ \E tika_result \in TikaResults, n \in 0..MaxTables :
        /\ Returned(_parse_docx(tika_result, DocxTables(n)))
        /\ units' = Append(units, Unit("tika", 1, "error" \in tika_result.keys,
                                       tika_result.text, n))
        /\ calls' = calls \cup {"extract_text_with_tika", "_extract_docx_tables"}
        /\ attempt' = attempt

\* parse_document, lines 39-40: _parse_xlsx
ParseXlsx ==
    /\ pc = "xlsx"
    /\ \E result \in XlsxResults :
        /\ Returned(_parse_xlsx(result))
        /\ units' = Append(units, Unit("xlsx", 1, "error" \in result.keys,
                                       result.raw_text, Len(result.tables)))
        /\ calls' = calls \cup {"parse_xlsx"}
        /\ attempt' = attempt

\* _parse_pdf_scanned, lines 160-166: the rasterizer; an exception it lets
\* through leaves parse_document and main.parse answers 500 (lines 32-33)
ScannedRasterize ==
    /\ pc = "pdf_scanned"
    /\ \E o \in RasterOutcomes :
        LET r == extract_pdf_pages(o)
        IN  /\ raster' = Rasterized(o)
            /\ IF r.raised
               THEN /\ http' = [status |-> 500, detail |-> "Parsing failed: rasterizer"]
                    /\ pc' = "done"
                    /\ UNCHANGED <<pages, page_count>>
               ELSE /\ pages' = r.pages
                    /\ page_count' = Len(r.pages)
                    /\ pc' = "scan_page"
                    /\ http' = http
    /\ calls' = calls \cup {"extract_pdf_pages"}
    /\ UNCHANGED <<filename, content, doc_type, response, blocks, tables, raw_text,
                   language, page_num, all_text, attempt, units>>

\* _parse_pdf_scanned, lines 168-211: one iteration of the page loop
ScannedPage ==
    /\ pc = "scan_page"
    /\ page_num < Len(pages)
    /\ \E prim \in TesseractResults, easy \in EasyOcrResults, n \in 0..MaxTables :
        LET fb == PageFallback(prim, easy)
            page_tables == ImageTables(n)
        IN  /\ page_num' = page_num + 1
            /\ all_text' = IF Strip(fb.page_text) # <<>>
                           THEN Append(all_text, fb.page_text) ELSE all_text
            /\ blocks' = blocks \o PageBlocks(page_num', fb, page_tables)
            /\ tables' = tables \o page_tables
            /\ attempt' = Attempt("page", page_num', prim, easy, fb, fb.page_text)
            /\ units' = Append(units, Unit("page", page_num',
                                           prim = TesseractFailed /\ easy = EasyOcrFailed,
                                           fb.page_text, n))
            /\ calls' = calls \cup {"preprocess_image", "run_tesseract",
                                    "extract_tables_from_image"}
                              \cup (IF fb.easy_calls > 0 THEN {"run_easyocr_fallback"} ELSE {})
    /\ UNCHANGED <<pc, filename, content, doc_type, http, response, raw_text, language,
                   page_count, pages, raster>>

\* _parse_pdf_scanned, lines 213-231: after the loop
ScannedFinish ==
    /\ pc = "scan_page"
    /\ page_num = Len(pages)
    /\ raw_text' = Join(<<"\n", "\n">>, all_text)
    /\ language' = detect_language(raw_text')
    /\ blocks' = WithPlaceholder(blocks)
    /\ pc' = "assemble"
    /\ UNCHANGED <<filename, content, doc_type, http, response, tables, page_count,
                   pages, page_num, all_text, attempt, units, calls, raster>>

\* parse_document, lines 45-57, and main.parse, line 31
Assemble ==
    /\ pc = "assemble"
    /\ response' = [returned |-> TRUE, blocks |-> blocks, raw_text |-> raw_text,
                    tables |-> tables, overall_confidence |-> Overall(blocks),
                    language |-> language, page_count |-> page_count]
    /\ http' = [status |-> 200, detail |-> ""]
    /\ pc' = "done"
    /\ UNCHANGED <<filename, content, doc_type>>
    /\ unchanged_work

Next ==
    \/ Parse
    \/ ParseImage
    \/ ParsePdfNative
    \/ ParseDocx
    \/ ParseXlsx
    \/ ScannedRasterize
    \/ ScannedPage
    \/ ScannedFinish
    \/ Assemble

Spec == Init /\ [][Next]_vars

(***************************************************************************)
(* The Type Classifier alone, over every document of at most MaxSegs       *)
(* segments and every file name.                                           *)
(***************************************************************************)
InitDetect ==
    /\ pc = "detect"
    /\ filename \in Filenames \ {<<>>}
    /\ content \in Contents
    /\ Blank

\* main.py parse, line 29
Detect ==
    /\ pc = "detect"
    /\ doc_type' = detect_document_type(content, filename)
    /\ pc' = "detected"
    /\ UNCHANGED <<filename, content, http, response>>
    /\ unchanged_work

NextDetect == Detect

SpecDetect == InitDetect /\ [][NextDetect]_vars

(***************************************************************************)
(* The language detector on its own: detect_language over texts made of    *)
(* leading blanks, a few signal words, a run of neutral letters and        *)
(* trailing blanks.                                                        *)
(***************************************************************************)
MaxWords == 2
MaxPad == 1

\* one diacritic of each kind (Romanian only, shared by Romanian and French,
\* French only, shared by French and German, German only), an upper-case
\* one, and a keyword in both cases
Words == {<<"a_breve">>, <<"a_circ">>, <<"e_acute">>, <<"u_uml">>, <<"eszett">>,
          <<"E_ACUTE">>, <<"a", "n", "u", "l">>, <<"A", "N", "U", "L">>}

\* lengths of the neutral run, on both sides of the 20-character limit
FillLens == {0, 15, 18, 19, 20}

LangTexts ==
    {Rep(" ", a) \o Join(<<>>, ws) \o Rep("x", f) \o Rep(" ", b) :
        a \in 0..MaxPad, b \in 0..MaxPad, f \in FillLens,
        ws \in UNION {[1..k -> Words] : k \in 0..MaxWords}}

InitLang ==
    /\ pc = "lang"
    /\ filename = <<>>
    /\ content = <<>>
    /\ doc_type = NoDocType
    /\ http = Pending
    /\ response = NoResponse
    /\ blocks = <<>>
    /\ tables = <<>>
    /\ raw_text \in LangTexts
    /\ language = None
    /\ page_count = 1
    /\ pages = <<>>
    /\ page_num = 0
    /\ all_text = <<>>
    /\ attempt = NoAttempt
    /\ units = <<>>
    /\ calls = {}
    /\ raster = NoRaster

\* language = detect_language(raw_text)
DetectLanguage ==
    /\ pc = "lang"
    /\ language' = detect_language(raw_text)
    /\ pc' = "langed"
    /\ UNCHANGED <<filename, content, doc_type, http, response, blocks, tables,
                   raw_text, page_count, pages, page_num, all_text, attempt, units,
                   calls, raster>>

NextLang == DetectLanguage

SpecLang == InitLang /\ [][NextLang]_vars

(***************************************************************************)
(* Properties of the response                                              *)
(***************************************************************************)
Responded == pc = "done" /\ http.status = 200

TableBlocksOf(bs) == SelectSeq(bs, LAMBDA b : b.type = "table")

\* a page of a scanned PDF, or an image, that appended no block of its own
ProducedNothing(u) == Strip(u.text) = <<>> /\ u.ntables = 0

\* C1: in every response returned, overall_confidence is the arithmetic mean
\* of the confidences of response.blocks, and 0 when response.blocks is empty.
C1_OverallIsMean ==
    Responded =>
        LET bs == response.blocks
            o == response.overall_confidence
        IN  /\ o.den > 0
            /\ IF bs = <<>> THEN o.num = 0
               ELSE o.num * Len(bs) = o.den * SumSeq([i \in DOMAIN bs |-> bs[i].confidence])

\* C1 witness: a response whose blocks have different confidences.
C1_Witness ==
    /\ Responded
    /\ Len(response.blocks) >= 2
    /\ \E i, j \in DOMAIN response.blocks :
        response.blocks[i].confidence # response.blocks[j].confidence

\* C2: a response for a scanned PDF has at least one block; when no page
\* produced a block (zero pages included) it is the single page-1 text block
\* with empty content, confidence 0 and a warning.
C2_ScannedNeverEmpty ==
    (Responded /\ doc_type.category = "pdf_scanned") =>
        /\ response.blocks # <<>>
        /\ (\A i \in DOMAIN units : ProducedNothing(units[i])) =>
                /\ Len(response.blocks) = 1
                /\ response.blocks[1].type = "text"
                /\ response.blocks[1].page = 1
                /\ response.blocks[1].content = <<>>
                /\ response.blocks[1].confidence = 0
                /\ response.blocks[1].warnings # <<>>

\* C2 witness: two pages were processed, neither produced a block, and the
\* response was returned.
C2_Witness ==
    /\ Responded
    /\ doc_type.category = "pdf_scanned"
    /\ Len(units) >= 2
    /\ \A i \in DOMAIN units : ProducedNothing(units[i])

\* C3: in every response of category pdf-native, pdf-scanned or xlsx, every
\* block's page lies in 1..page_count.
C3_PagesInRange ==
    (Responded /\ doc_type.category \in {"pdf_native", "pdf_scanned", "xlsx"}) =>
        \A i \in DOMAIN response.blocks :
            /\ 1 <= response.blocks[i].page
            /\ response.blocks[i].page <= response.page_count

\* C4: in every response, response.tables is as long as the table blocks of
\* response.blocks, and the i-th table block carries the i-th table.
C4_TablesMatchTableBlocks ==
    Responded =>
        LET tbs == TableBlocksOf(response.blocks)
        IN  /\ Len(tbs) = Len(response.tables)
            /\ \A i \in DOMAIN tbs : tbs[i].content = response.tables[i]

\* C4 witness: a response with two different tables.
C4_Witness ==
    /\ Responded
    /\ Len(response.tables) >= 2
    /\ response.tables[1] # response.tables[2]

SupportedExtensions ==
    {<<".", "p", "n", "g">>, <<".", "j", "p", "g">>, <<".", "j", "p", "e", "g">>,
     <<".", "t", "i", "f", "f">>, <<".", "t", "i", "f">>, <<".", "p", "d", "f">>,
     <<".", "d", "o", "c", "x">>, <<".", "x", "l", "s", "x">>, <<".", "x", "l", "s">>}

\* the request passed the checks of the boundary (a file name, at most 25 MiB)
Accepted == pc # "idle" /\ filename # <<>> /\ ContentLen(content) <= MAX_UPLOAD

\* C5: a file whose extension is none of the nine supported ones, or that has
\* no ".", is of category unknown; the request then ends with the single
\* error "unsupported document type", no engine was called and no response
\* was built.
C5_UnknownFails ==
    /\ (Accepted /\ Extension(filename) \notin SupportedExtensions)
            => doc_type.category = "unknown"
    /\ doc_type.category = "unknown" =>
            /\ pc = "done"
            /\ http.status = 500
            /\ http.detail = "Parsing failed: Unsupported document type"
            /\ response.returned = FALSE
            /\ calls = {}
            /\ blocks = <<>>

\* C5 witness: a file name without "." was refused as unknown.
C5_Witness ==
    /\ pc = "done"
    /\ filename # <<>>
    /\ LastDot(filename) = 0
    /\ doc_type.category = "unknown"
    /\ http.status = 500

\* the text blocks the OCR attempt `attempt` appended
AttemptBlocks ==
    {i \in DOMAIN blocks : blocks[i].type = "text" /\ blocks[i].page = attempt.page}

Carries(b, result) ==
    /\ b.content = result.text
    /\ b.confidence = result.confidence
    /\ b.source = result.source
    /\ b.warnings = result.warnings

\* the states in which attempt is the OCR attempt just made: after
\* _parse_image, and after each iteration of the page loop
AttemptMade ==
    \/ attempt.unit = "image"
    \/ attempt.unit = "page" /\ pc = "scan_page"

\* C6: run_easyocr_fallback is called exactly when the primary confidence is
\* below 70, and at most once per image or page; with a primary confidence of
\* 70 or more it is not called and the text block emitted carries the
\* primary's text, confidence, source and warnings.
C6_SecondaryOnlyBelowThreshold ==
    AttemptMade =>
        /\ attempt.easy_calls <= 1
        /\ (attempt.easy_calls = 1) <=> (attempt.primary.confidence < 70)
        /\ attempt.primary.confidence >= 70 =>
              /\ attempt.easy_calls = 0
              /\ attempt.page = 1 => "run_easyocr_fallback" \notin calls
              /\ attempt.unit = "image" => AttemptBlocks = {1}
              /\ \A i \in AttemptBlocks : Carries(blocks[i], attempt.primary)

\* C6 witness: page 2 of a scanned PDF was read with confidence 70 and its
\* text block was emitted.
C6_Witness ==
    /\ AttemptMade
    /\ attempt.unit = "page"
    /\ attempt.page = 2
    /\ attempt.primary.confidence >= 70
    /\ AttemptBlocks # {}

\* C7: with a primary confidence below 70, the result in effect is the
\* secondary's (text, confidence, source together) exactly when the secondary
\* confidence is strictly greater; otherwise, ties included, it is the
\* primary's, with its text, confidence, source and warnings.
C7_SecondaryOnlyIfStrictlyBetter ==
    (AttemptMade /\ attempt.primary.confidence < 70) =>
        LET effective ==
                IF attempt.secondary.confidence > attempt.primary.confidence
                THEN attempt.secondary ELSE attempt.primary
        IN  /\ attempt.ocr_result = effective
            /\ attempt.text = effective.text
            /\ attempt.unit = "image" => AttemptBlocks = {1}
            /\ \A i \in AttemptBlocks : Carries(blocks[i], effective)

\* C7 witness: an image read with confidence 40 by both engines keeps the
\* primary's block.
C7_Witness ==
    /\ AttemptMade
    /\ attempt.unit = "image"
    /\ attempt.primary.confidence = 40
    /\ attempt.secondary.confidence = 40
    /\ blocks[1].source = "tesseract"

\* C7, the other case: the secondary's result replaced the primary's.
C7_WitnessAdopted ==
    /\ AttemptMade
    /\ attempt.unit = "page"
    /\ attempt.primary.confidence = 40
    /\ attempt.secondary.confidence = 70
    /\ \E i \in AttemptBlocks : blocks[i].source = "easyocr"

(***************************************************************************)
(* Properties of the Type Classifier                                       *)
(***************************************************************************)
\* the marker occurs somewhere in the document
Occurs(m, c) == \E i \in DOMAIN c : c[i].m = m

\* the marker occurs within the first 50,000 bytes of the document
OccursEarly(m, c) ==
    \E i \in DOMAIN c : c[i].m = m /\ ContentLen(SubSeq(c, 1, i)) <= 50000

EarlyMarkers(c) ==
    {m \in {"/Type /Page", "BT", "ET", "/Font"} : OccursEarly(m, c)}

ClassifiedPdf == pc = "detected" /\ Extension(filename) = <<".", "p", "d", "f">>

IsNative == doc_type.category = "pdf_native" /\ doc_type.has_text
IsScanned == doc_type.category = "pdf_scanned" /\ ~doc_type.has_text

\* C8, as stated: a .pdf file (any letter case) with the page-type and the
\* font-resource marker but neither text-block marker is pdf-scanned, and one
\* with all four markers is pdf-native.
C8_TwoMarkersScanned ==
    ClassifiedPdf =>
        /\ (/\ Occurs("/Type /Page", content) /\ Occurs("/Font", content)
            /\ ~Occurs("BT", content) /\ ~Occurs("ET", content)) => IsScanned
        /\ (\A m \in {"/Type /Page", "BT", "ET", "/Font"} : Occurs(m, content))
                => IsNative

\* C8, amended: a .pdf file (any letter case) whose first 50,000 bytes hold
\* the page-type and the font-resource marker is pdf-native with has-text
\* true, with or without the text-block markers (so also with all four).
C8_TwoMarkersNative ==
    (/\ ClassifiedPdf
     /\ OccursEarly("/Type /Page", content)
     /\ OccursEarly("/Font", content)) => IsNative

\* C8 witness: report.PDF with the page-type and font-resource markers and
\* neither text-block marker was classified pdf-native.
C8_Witness ==
    /\ ClassifiedPdf
    /\ filename = <<"r", "e", "p", "o", "r", "t", ".", "P", "D", "F">>
    /\ OccursEarly("/Type /Page", content) /\ OccursEarly("/Font", content)
    /\ ~Occurs("BT", content) /\ ~Occurs("ET", content)
    /\ IsNative

\* C9: a .pdf file is pdf-native with has-text true exactly when at least 2
\* of the 4 markers occur within its first 50,000 bytes, and pdf-scanned with
\* has-text false otherwise; later occurrences do not count.
C9_NativeIffTwoEarlyMarkers ==
    ClassifiedPdf =>
        IF Cardinality(EarlyMarkers(content)) >= 2 THEN IsNative ELSE IsScanned

\* C9 witness: a document with three markers, two of them only after byte
\* 50,000, was classified pdf-scanned.
C9_Witness ==
    /\ ClassifiedPdf
    /\ Cardinality({m \in {"/Type /Page", "BT", "ET", "/Font"} : Occurs(m, content)}) = 3
    /\ Cardinality(EarlyMarkers(content)) = 1
    /\ IsScanned

(***************************************************************************)
(* Failed units                                                            *)
(***************************************************************************)
\* C10: when both OCR engines failed on an image or on a page of a scanned
\* PDF, or the text extractor failed on a pdf-native or docx document, the
\* response holds a text block for that unit with confidence 0 and a warning.
C10_FailedUnitIsReported ==
    Responded =>
        \A k \in DOMAIN units :
            (units[k].kind \in {"image", "page", "tika"} /\ units[k].failed) =>
                \E i \in DOMAIN response.blocks :
                    /\ response.blocks[i].type = "text"
                    /\ response.blocks[i].page = units[k].page
                    /\ response.blocks[i].confidence = 0
                    /\ response.blocks[i].warnings # <<>>

(***************************************************************************)
(* The rasterizer, the image language, the sheet count                     *)
(***************************************************************************)
\* C11: extract_pdf_pages lets no failure through: when PyMuPDF fails for any
\* reason (not installed, or raising on the document) pdf2image is tried, and
\* when both fail the pages are the one-element list holding the document,
\* so page_count is 1.
C11_RasterizerNeverFails ==
    raster.fitz # "not called" =>
        /\ http.status # 500
        /\ raster.fitz # "ok" => raster.pdf2image # "not called"
        /\ (raster.fitz # "ok" /\ raster.pdf2image = "raises") =>
                pages = <<"pdf">> /\ page_count = 1

\* C12: the language of an image response is the heuristic's answer for the
\* text the strategy emits (the text block's content, which is raw_text),
\* and an OCR engine's own tag only when the heuristic gives none.
C12_ImageLanguageFromEmittedText ==
    (Responded /\ doc_type.category = "image") =>
        /\ response.blocks[1].content = response.raw_text
        /\ response.language \in
                {Or(detect_language(response.raw_text), attempt.primary.language),
                 Or(detect_language(response.raw_text), attempt.ocr_result.language)}

\* C14: the page_count of an xlsx response is the number of sheet-tables the
\* reader produced when there is at least one, and 1 when there is none,
\* with or without a reader error.
C14_XlsxPageCount ==
    (Responded /\ doc_type.category = "xlsx") =>
        /\ Len(response.tables) = units[1].ntables
        /\ response.page_count = IF units[1].ntables >= 1 THEN units[1].ntables ELSE 1

(***************************************************************************)
(* Order of the blocks of a scanned PDF                                    *)
(***************************************************************************)
\* the warning block synthesized after the page loop belongs to no page
IsPlaceholder(b) ==
    b.type = "text" /\ b.warnings = <<"No text could be extracted from this PDF">>

\* the text blocks page p contributed
PageTextBlocks(bs, p) ==
    {i \in DOMAIN bs : bs[i].type = "text" /\ bs[i].page = p /\ ~IsPlaceholder(bs[i])}

\* the texts of the pages that read something, in page order
NonEmptyPageTexts ==
    SelectSeq([k \in DOMAIN units |-> units[k].text], LAMBDA t : Strip(t) # <<>>)

\* C15: in a scanned PDF's response the blocks are in production order: page
\* numbers never decrease, a page contributes at most one text block, only
\* when its OCR text in effect is non-empty after trimming, and before the
\* page's table blocks; raw_text is the non-empty page texts, in page order,
\* joined by a blank line.
C15_ScannedProductionOrder ==
    (Responded /\ doc_type.category = "pdf_scanned") =>
        LET bs == response.blocks
        IN  /\ \A i, j \in DOMAIN bs : i < j => bs[i].page <= bs[j].page
            /\ \A p \in DOMAIN units :
                /\ units[p].page = p
                /\ Cardinality(PageTextBlocks(bs, p)) <= 1
                /\ PageTextBlocks(bs, p) # {} => Strip(units[p].text) # <<>>
                /\ \A i \in PageTextBlocks(bs, p) :
                    /\ bs[i].content = units[p].text
                    /\ \A j \in DOMAIN bs :
                        (bs[j].type = "table" /\ bs[j].page = p) => i < j
            /\ response.raw_text = Join(<<"\n", "\n">>, NonEmptyPageTexts)

\* C15 witness: page 1 gave a text and a table, page 2 a text, and the
\* response was returned.
C15_Witness ==
    /\ Responded
    /\ doc_type.category = "pdf_scanned"
    /\ Len(units) = 2
    /\ Strip(units[1].text) # <<>> /\ units[1].ntables >= 1
    /\ Strip(units[2].text) # <<>>
    /\ Len(response.blocks) >= 3

(***************************************************************************)
(* The language detector                                                   *)
(***************************************************************************)
\* the highest of the four scores
TopScore(t) ==
    LET scores == Scores(t)
    IN  CHOOSE v \in {scores[k] : k \in DOMAIN scores} :
            \A k \in DOMAIN scores : scores[k] <= v

\* C13: detect_language returns no tag exactly when the text is empty or its
\* stripped length is under 20 characters; for every longer text it returns
\* one of the four candidate tags, and it returns ron whenever the highest
\* score among the candidates is below 3.
C13_DetectLanguageContract ==
    pc = "langed" =>
        /\ language = None <=> (raw_text = <<>> \/ Len(Strip(raw_text)) < 20)
        /\ language # None => language \in {"ron", "fra", "deu", "eng"}
        /\ (Len(Strip(raw_text)) >= 20 /\ TopScore(raw_text) < 3) => language = "ron"

\* C13 witness: a text of 20 characters, 19 once stripped, got no tag.
C13_Witness ==
    /\ pc = "langed"
    /\ Len(raw_text) >= 20
    /\ Len(Strip(raw_text)) = 19
    /\ language = None

\* C16: detect_language never returns eng: its results are None, ron, fra and
\* deu only.
C16_NeverEng ==
    pc = "langed" => language \in {None, "ron", "fra", "deu"}

\* C16 witness: a text long enough to be scored on which every candidate,
\* eng included, scores 0 was tagged ron.
C16_Witness ==
    /\ pc = "langed"
    /\ Len(Strip(raw_text)) >= 20
    /\ \A k \in {"ron", "fra", "deu", "eng"} : Scores(raw_text)[k] = 0
    /\ language = "ron"

====
